---- MODULE Spec2Model ----
(***************************************************************************)
(* Model of upload-multi.py: the PeerTubeUploader session (token, default  *)
(* channel id, channel cache) and its operations login, create_channel,    *)
(* upload_video and bulk_upload, together with the example entry point.    *)
(* The program is sequential: one HTTP request is in flight at a time.     *)
(* Every HTTP request is one step whose response is chosen by the remote   *)
(* service; `stack` is the Python call stack and `ret` the value returned  *)
(* or the exception raised by the call that finished last.                 *)
(***************************************************************************)
EXTENDS Integers, Sequences, FiniteSets, TLC

VARIABLES
    token,        \* self.token (NoToken until a token exchange succeeded)
    channel_id,   \* self.channel_id (NoId until a profile with channels was read)
    channels,     \* self.channels: function channel name -> channel id
    stack,        \* call stack, innermost frame last
    ret,          \* outcome of the call that finished last
    entry,        \* "none" | "library" | "script": how the session is driven
    calls,        \* number of top-level calls made on the session
    ev,           \* tag of the last step taken
    reqs,         \* requests issued by the current create_channel/upload_video/login call
    nreq,         \* number of requests issued during the current top-level call
    authFailed,   \* a login raised during the current top-level call
    atCall,       \* session as it was when create_channel/upload_video was called
    atReq,        \* session as it was when the create/upload request was issued
    logins,       \* login() invocations made by the current create_channel/upload_video call
    handle,       \* state of the file object opened by the current upload_video call
    served,       \* upload requests the service answered during the current bulk_upload
    attempted,    \* files bulk_upload passed to upload_video, in order
    lastProfile   \* profile document of the last answered profile request

vars == <<token, channel_id, channels, stack, ret, entry, calls, ev, reqs, nreq,
          authFailed, atCall, atReq, logins, handle, served, attempted, lastProfile>>

session == <<token, channel_id, channels>>
hist == <<reqs, nreq, authFailed, atCall, atReq, logins, handle, served, attempted,
          lastProfile>>

----------------------------------------------------------------------------
(* Bounds of the model *)

MaxCalls == 2      \* top-level calls made on one session
MaxFiles == 2      \* entries of a directory listing
MaxChannels == 2   \* channels listed by a profile

(* Values *)

NoToken == "None"
NoId == 0
NoName == "None"

Tokens == {"tokA"}
Names == {"test_script", "other"}
Ids == {1, 2}
VideoIds == {11, 12}

\* status 0 stands for a transport error or timeout: no response arrived
LoginStatuses == {200, 401, 0}
CreateStatuses == {200, 409, 400, 0}
UploadStatuses == {200, 413, 415, 422, 500, 0}

Files == { [stem |-> "a", suffix |-> ".mp4"],
           [stem |-> "b", suffix |-> ".txt"],
           [stem |-> "c", suffix |-> ".MKV"] }

RECURSIVE SeqsUpTo(_, _)
SeqsUpTo(S, n) ==
    IF n = 0 THEN { <<>> }
    ELSE LET shorter == SeqsUpTo(S, n - 1)
         IN  shorter \cup { Append(s, x) : s \in shorter, x \in S }

NoDup(s) == \A i, j \in 1..Len(s) : i # j => s[i] # s[j]

\* directory listings: distinct entries, in any order
Directories == { d \in SeqsUpTo(Files, MaxFiles) : NoDup(d) }

\* profile documents: the videoChannels list of /api/v1/users/me
Channel == [name : Names, id : Ids]
Profiles == SeqsUpTo(Channel, MaxChannels)

----------------------------------------------------------------------------
(* Python helpers *)

\* truth value of an optional string: None and "" are false
Truthy(s) == s # "None" /\ s # ""

\* requests.Response.raise_for_status raises HTTPError for 4xx and 5xx
IsHTTPError(status) == status >= 400 /\ status < 600

\* str.lower() on the suffixes that occur
Lower(s) ==
    CASE s = ".MKV" -> ".mkv"
      [] s = ".MP4" -> ".mp4"
      [] s = ".WEBM" -> ".webm"
      [] OTHER -> s

video_extensions == {".mp4", ".webm", ".mkv"}

NoRet == [kind |-> "none", type |-> "", msg |-> "", status |-> 0, val |-> <<>>]
Return(v) == [kind |-> "return", type |-> "", msg |-> "", status |-> 0, val |-> v]
Raise(t, m, st) == [kind |-> "raise", type |-> t, msg |-> m, status |-> st, val |-> <<>>]

\* the exception a failed exchange raises: HTTPError from raise_for_status,
\* ConnectionError (a RequestException) when no response arrived
HTTPFailure(status) ==
    IF status = 0 THEN Raise("ConnectionError", "transport", 0)
    ELSE Raise("HTTPError", "status", status)

\* isinstance(exception, cls) for the exception classes that occur: HTTPError
\* and ConnectionError are RequestExceptions, which are OSErrors; all are
\* Exceptions
IsInstance(type, cls) ==
    CASE cls = "Exception" -> TRUE
      [] cls = "OSError" -> type \in {"OSError", "HTTPError", "ConnectionError"}
      [] cls = "RequestException" -> type \in {"HTTPError", "ConnectionError"}
      [] OTHER -> type = cls

Top == stack[Len(stack)]
Pop == SubSeq(stack, 1, Len(stack) - 1)
Goto(p) == [stack EXCEPT ![Len(stack)].pc = p]
Running(op, p) == Len(stack) > 0 /\ Top.op = op /\ Top.pc = p

Snapshot == [token |-> token, channel_id |-> channel_id, channels |-> channels]
Request(k, bearer, cid) == [kind |-> k, token |-> bearer, channelId |-> cid]

EmptyDict == [n \in {} |-> NoId]

loginFrame == [op |-> "login", pc |-> "client"]

----------------------------------------------------------------------------
(* Initial state: the session as __init__ leaves it *)

Init ==
    /\ token = NoToken
    /\ channel_id = NoId
    /\ channels = EmptyDict
    /\ stack = <<>>
    /\ ret = NoRet
    /\ entry = "none"
    /\ calls = 0
    /\ ev = "init"
    /\ reqs = <<>>
    /\ nreq = 0
    /\ authFailed = FALSE
    /\ atCall = [op |-> "none", token |-> NoToken, channel_id |-> NoId,
                 channels |-> EmptyDict]
    /\ atReq = [token |-> NoToken, channel_id |-> NoId, channels |-> EmptyDict]
    /\ logins = 0
    /\ handle = "none"
    /\ served = <<>>
    /\ attempted = <<>>
    /\ lastProfile = <<>>

\* bookkeeping at the start of a call of operation op
BeginCall(op) ==
    /\ reqs' = <<>>
    /\ atCall' = [op |-> op, token |-> token, channel_id |-> channel_id,
                  channels |-> channels]
    /\ atReq' = Snapshot
    /\ logins' = 0
    /\ handle' = "none"

\* bookkeeping at the start of a top-level call
BeginTopLevel(op) ==
    /\ calls' = calls + 1
    /\ ret' = NoRet
    /\ nreq' = 0
    /\ authFailed' = FALSE
    /\ served' = <<>>
    /\ attempted' = <<>>
    /\ lastProfile' = <<>>
    /\ BeginCall(op)

Issue(r) ==
    /\ reqs' = Append(reqs, r)
    /\ nreq' = nreq + 1

----------------------------------------------------------------------------
(* login *)

\* variant: the default channel taken from the end of the list
LoginChannelId_last(profile) == profile[Len(profile)].id

\* line 47: the default channel is the first channel listed
LoginChannelId(profile) == profile[1].id

\* line 48: {channel['name']: channel['id'] for channel in videoChannels};
\* a later entry of the same name replaces an earlier one
RECURSIVE LoginChannels(_)
LoginChannels(profile) ==
    IF Len(profile) = 0 THEN EmptyDict
    ELSE LET n == Len(profile)
             d == LoginChannels(SubSeq(profile, 1, n - 1))
         IN  [c \in DOMAIN d \cup {profile[n].name} |->
                 IF c = profile[n].name THEN profile[n].id ELSE d[c]]

\* line 46: 'videoChannels' in user_data and len(user_data['videoChannels']) > 0
HasChannels(profile) == Len(profile) > 0

LoginRaise(exc) ==
    /\ stack' = Pop
    /\ ret' = exc
    /\ authFailed' = TRUE
    /\ ev' = "login_raise"

\* lines 20-23: GET /api/v1/oauth-clients/local
LoginGetClient ==
    /\ Running("login", "client")
    /\ \E status \in LoginStatuses :
          /\ Issue(Request("client", NoToken, NoId))
          /\ IF status = 200
                THEN /\ stack' = Goto("token")
                     /\ ev' = "login_client"
                     /\ UNCHANGED <<ret, authFailed>>
                ELSE LoginRaise(HTTPFailure(status))
    /\ UNCHANGED <<session, entry, calls, atCall, atReq, logins, handle, served,
                   attempted, lastProfile>>

\* lines 26-38: POST /api/v1/users/token; the token is stored at once
LoginGetToken ==
    /\ Running("login", "token")
    /\ \E status \in LoginStatuses, tok \in Tokens :
          /\ Issue(Request("token", NoToken, NoId))
          /\ IF status = 200
                THEN /\ token' = tok
                     /\ stack' = Goto("profile")
                     /\ ev' = "login_token"
                     /\ UNCHANGED <<ret, authFailed>>
                ELSE /\ LoginRaise(HTTPFailure(status))
                     /\ UNCHANGED token
    /\ UNCHANGED <<channel_id, channels, entry, calls, atCall, atReq, logins, handle,
                   served, attempted, lastProfile>>

\* lines 41-51: GET /api/v1/users/me with the bearer token
LoginGetProfile ==
    /\ Running("login", "profile")
    /\ \E status \in LoginStatuses, profile \in Profiles :
          /\ Issue(Request("profile", token, NoId))
          /\ IF status # 200
                THEN /\ LoginRaise(HTTPFailure(status))
                     /\ UNCHANGED <<channel_id, channels, lastProfile>>
                ELSE /\ lastProfile' = profile
                     /\ IF HasChannels(profile)
                           THEN /\ channel_id' = LoginChannelId(profile)
                                /\ channels' = LoginChannels(profile)
                                /\ stack' = Pop
                                /\ ret' = Return(<<>>)
                                /\ ev' = "login_return"
                                /\ UNCHANGED authFailed
                           ELSE /\ LoginRaise(Raise("Exception", "No video channels found", 0))
                                /\ UNCHANGED <<channel_id, channels>>
    /\ UNCHANGED <<token, entry, calls, atCall, atReq, logins, handle, served, attempted>>

----------------------------------------------------------------------------
(* create_channel *)

\* variant: the token test never asks for a login
NeedsLogin_never(tok) == FALSE

\* lines 55 and 95: if not self.token
NeedsLogin(tok) == ~Truthy(tok)

\* lines 69-80: what the call does with the response to the create request
CreateOutcome(status, id) ==
    IF status # 0 /\ ~IsHTTPError(status) THEN Return([id |-> id])
    ELSE LET e == HTTPFailure(status)
         IN  IF IsInstance(e.type, "HTTPError") /\ e.status = 409
               THEN Return(<<>>)
               ELSE e

\* variant: the cache entry is also written on a conflict response
ChannelsAfterCreate_onConflict(ch, name, status, id) ==
    IF status # 0 /\ (~IsHTTPError(status) \/ status = 409)
      THEN [c \in DOMAIN ch \cup {name} |-> IF c = name THEN id ELSE ch[c]]
      ELSE ch

\* line 73: self.channels[name] = channel_data['id'], reached on success only
ChannelsAfterCreate(ch, name, status, id) ==
    IF status # 0 /\ ~IsHTTPError(status)
      THEN [c \in DOMAIN ch \cup {name} |-> IF c = name THEN id ELSE ch[c]]
      ELSE ch

createFrame(name) == [op |-> "create_channel", pc |-> "start", name |-> name]

\* lines 55-56
CreateStart ==
    /\ Running("create_channel", "start")
    /\ IF NeedsLogin(token)
          THEN /\ stack' = Append(Goto("after_login"), loginFrame)
               /\ logins' = logins + 1
          ELSE /\ stack' = Goto("request")
               /\ UNCHANGED logins
    /\ ev' = "create_start"
    /\ UNCHANGED <<session, ret, entry, calls, reqs, nreq, authFailed, atCall, atReq,
                   handle, served, attempted, lastProfile>>

\* line 56: login() is outside the try, so its exception leaves create_channel
CreateAfterLogin ==
    /\ Running("create_channel", "after_login")
    /\ IF ret.kind = "raise"
          THEN /\ stack' = Pop
               /\ ev' = "create_raise_login"
          ELSE /\ stack' = Goto("request")
               /\ ev' = "create_logged_in"
    /\ lastProfile' = <<>>
    /\ UNCHANGED <<session, ret, entry, calls, reqs, nreq, authFailed, atCall, atReq,
                   logins, handle, served, attempted>>

\* lines 58-80: POST /api/v1/video-channels
CreateRequest ==
    /\ Running("create_channel", "request")
    /\ \E status \in CreateStatuses, id \in Ids :
          /\ Issue(Request("create", token, NoId))
          /\ channels' = ChannelsAfterCreate(channels, Top.name, status, id)
          /\ ret' = CreateOutcome(status, id)
          /\ ev' = IF status = 409 THEN "create_conflict"
                   ELSE IF status = 0 \/ IsHTTPError(status) THEN "create_failed"
                   ELSE "create_ok"
    /\ atReq' = Snapshot
    /\ stack' = Pop
    /\ UNCHANGED <<token, channel_id, entry, calls, authFailed, atCall, logins, handle,
                   served, attempted, lastProfile>>

----------------------------------------------------------------------------
(* upload_video *)

\* variant: the channel name is ignored
SelectChannel_default(ch, default, channel_name) == default

\* line 103: self.channels.get(channel_name, self.channel_id) if channel_name
\*           else self.channel_id
SelectChannel(ch, default, channel_name) ==
    IF Truthy(channel_name)
      THEN IF channel_name \in DOMAIN ch THEN ch[channel_name] ELSE default
      ELSE default

FormatMsg == "Video format not supported. Please use MP4 format with H.264 codec."
QuotaMsg == "Video file too large. Please check your quota."
UnreadableMsg == "Video file unreadable. Please check the file."

\* variant: status 413 is not told apart from the other failure statuses
UploadOutcome_noQuota(status, doc) ==
    IF status = 0 THEN Raise("ConnectionError", "transport", 0)
    ELSE IF status = 415 THEN Raise("Exception", FormatMsg, 0)
    ELSE IF status = 422 THEN Raise("Exception", UnreadableMsg, 0)
    ELSE IF IsHTTPError(status) THEN Raise("HTTPError", "status", status)
    ELSE Return(doc)

\* lines 126-150: what the call does with the response to the upload request;
\* a RequestException is printed and raised again, any other exception passes
UploadOutcome(status, doc) ==
    IF status = 0 THEN Raise("ConnectionError", "transport", 0)
    ELSE IF status = 415 THEN Raise("Exception", FormatMsg, 0)
    ELSE IF status = 413 THEN Raise("Exception", QuotaMsg, 0)
    ELSE IF status = 422 THEN Raise("Exception", UnreadableMsg, 0)
    ELSE IF IsHTTPError(status) THEN Raise("HTTPError", "status", status)
    ELSE Return(doc)

\* lines 120-122: open(video_path, 'rb') is never closed by the code.  When the
\* call raises, the traceback keeps the frame and its file object alive, so the
\* file is open; when it returns, the object is unreachable and is closed now
\* (reference counting) or later (tracing collector).
HandleAtExit(outcome) ==
    IF outcome.kind = "raise" THEN {"open"} ELSE {"open", "closed"}

uploadFrame(path, channel_name) ==
    [op |-> "upload_video", pc |-> "start", video_path |-> path,
     channel_name |-> channel_name, title |-> "", channelId |-> NoId]

\* lines 95-96
UploadStart ==
    /\ Running("upload_video", "start")
    /\ IF NeedsLogin(token)
          THEN /\ stack' = Append(Goto("after_login"), loginFrame)
               /\ logins' = logins + 1
          ELSE /\ stack' = Goto("open")
               /\ UNCHANGED logins
    /\ ev' = "upload_start"
    /\ UNCHANGED <<session, ret, entry, calls, reqs, nreq, authFailed, atCall, atReq,
                   handle, served, attempted, lastProfile>>

\* line 96: login() is outside the try, so its exception leaves upload_video
UploadAfterLogin ==
    /\ Running("upload_video", "after_login")
    /\ IF ret.kind = "raise"
          THEN /\ stack' = Pop
               /\ ev' = "upload_raise_login"
          ELSE /\ stack' = Goto("open")
               /\ ev' = "upload_logged_in"
    /\ lastProfile' = <<>>
    /\ UNCHANGED <<session, ret, entry, calls, reqs, nreq, authFailed, atCall, atReq,
                   logins, handle, served, attempted>>

\* lines 98-122: title, channel id, request data, and the open of the file
UploadOpen ==
    /\ Running("upload_video", "open")
    /\ \E readable \in BOOLEAN :
          IF readable
            THEN /\ stack' = [stack EXCEPT
                        ![Len(stack)].pc = "request",
                        ![Len(stack)].title = Top.video_path.stem,
                        ![Len(stack)].channelId =
                            SelectChannel(channels, channel_id, Top.channel_name)]
                 /\ handle' = "open"
                 /\ ev' = "upload_open"
                 /\ UNCHANGED ret
            ELSE /\ stack' = Pop
                 /\ ret' = Raise("OSError", "open", 0)
                 /\ ev' = "upload_raise_open"
                 /\ UNCHANGED handle
    /\ UNCHANGED <<session, entry, calls, reqs, nreq, authFailed, atCall, atReq, logins,
                   served, attempted, lastProfile>>

\* lines 125-150: POST /api/v1/videos/upload
UploadRequest ==
    /\ Running("upload_video", "request")
    /\ \E status \in UploadStatuses, vid \in VideoIds :
          LET outcome == UploadOutcome(status, [id |-> vid])
          IN  /\ Issue(Request("upload", token, Top.channelId))
              /\ ret' = outcome
              /\ handle' \in HandleAtExit(outcome)
              /\ served' = Append(served,
                     [file |-> Top.video_path, channel_name |-> Top.channel_name,
                      channelId |-> Top.channelId, status |-> status,
                      doc |-> [id |-> vid]])
              /\ ev' = "upload_answered"
    /\ atReq' = Snapshot
    /\ stack' = Pop
    /\ UNCHANGED <<session, entry, calls, authFailed, atCall, logins, attempted,
                   lastProfile>>

----------------------------------------------------------------------------
(* bulk_upload *)

\* line 158: file_path.suffix.lower() in video_extensions
Recognized(file) == Lower(file.suffix) \in video_extensions

\* variant: a returned result is put in front of the list
BulkResults_prepend(results, r) ==
    IF r.kind = "return" THEN <<r.val>> \o results ELSE results

\* lines 159-170: a returned result is appended; any Exception is printed and
\* the loop continues
BulkResults(results, r) ==
    IF r.kind = "return" THEN Append(results, r.val) ELSE results

bulkFrame(dir, channel_name) ==
    [op |-> "bulk_upload", pc |-> "loop", files |-> dir, idx |-> 1,
     results |-> <<>>, channel_name |-> channel_name]

\* lines 157-158, a file whose suffix is not recognized
BulkSkip ==
    /\ Running("bulk_upload", "loop")
    /\ Top.idx <= Len(Top.files)
    /\ ~Recognized(Top.files[Top.idx])
    /\ stack' = [stack EXCEPT ![Len(stack)].idx = Top.idx + 1]
    /\ ev' = "bulk_skip"
    /\ UNCHANGED <<session, ret, entry, calls, hist>>

\* lines 157-165, a recognized file: upload_video is called
BulkCallUpload ==
    /\ Running("bulk_upload", "loop")
    /\ Top.idx <= Len(Top.files)
    /\ Recognized(Top.files[Top.idx])
    /\ stack' = Append(Goto("after_upload"),
                       uploadFrame(Top.files[Top.idx], Top.channel_name))
    /\ attempted' = Append(attempted, Top.files[Top.idx])
    /\ BeginCall("upload_video")
    /\ ev' = "bulk_call_upload"
    /\ UNCHANGED <<session, ret, entry, calls, nreq, authFailed, served, lastProfile>>

\* lines 166-170: the outcome of upload_video
BulkAfterUpload ==
    /\ Running("bulk_upload", "after_upload")
    /\ IF ret.kind = "raise" /\ ~IsInstance(ret.type, "Exception")
          THEN /\ stack' = Pop
               /\ ev' = "bulk_raise"
          ELSE /\ stack' = [stack EXCEPT
                      ![Len(stack)].pc = "loop",
                      ![Len(stack)].idx = Top.idx + 1,
                      ![Len(stack)].results = BulkResults(Top.results, ret)]
               /\ ev' = IF ret.kind = "return" THEN "bulk_appended" ELSE "bulk_caught"
    /\ UNCHANGED <<session, ret, entry, calls, hist>>

\* line 172: the listing is exhausted
BulkReturn ==
    /\ Running("bulk_upload", "loop")
    /\ Top.idx > Len(Top.files)
    /\ ret' = Return(Top.results)
    /\ stack' = Pop
    /\ ev' = "bulk_return"
    /\ UNCHANGED <<session, entry, calls, hist>>

----------------------------------------------------------------------------
(* the entry point *)

MainChannel == "test_script"

mainFrame(dir, channel_name) ==
    [op |-> "main", pc |-> "create", video_dir |-> dir, channel_name |-> channel_name]

\* lines 183-188: create_channel is called inside try
MainCreate ==
    /\ Running("main", "create")
    /\ stack' = Append(Goto("after_create"), createFrame(MainChannel))
    /\ BeginCall("create_channel")
    /\ ev' = "main_create"
    /\ UNCHANGED <<session, ret, entry, calls, nreq, authFailed, served, attempted,
                   lastProfile>>

\* lines 189-196: any Exception of create_channel is printed; bulk_upload follows
MainBulk ==
    /\ Running("main", "after_create")
    /\ IF ret.kind = "raise" /\ ~IsInstance(ret.type, "Exception")
          THEN /\ stack' = Pop
               /\ ev' = "main_raise"
          ELSE /\ stack' = Append(Goto("after_bulk"),
                                  bulkFrame(Top.video_dir, Top.channel_name))
               /\ ev' = IF ret.kind = "raise" THEN "main_caught" ELSE "main_created"
    /\ UNCHANGED <<session, ret, entry, calls, hist>>

\* end of the script
MainDone ==
    /\ Running("main", "after_bulk")
    /\ stack' = Pop
    /\ ev' = "main_done"
    /\ UNCHANGED <<session, ret, entry, calls, hist>>

----------------------------------------------------------------------------
(* calls made on the session: by the script (line 181 on) or by a caller that
   uses the class as a library *)

CallMain ==
    /\ stack = <<>>
    /\ entry = "none"
    /\ \E dir \in Directories, c \in Names :
          stack' = <<mainFrame(dir, c)>>
    /\ entry' = "script"
    /\ ev' = "call_main"
    /\ BeginTopLevel("main")
    /\ UNCHANGED session

Idle ==
    /\ stack = <<>>
    /\ entry # "script"
    /\ calls < MaxCalls

CallLogin ==
    /\ Idle
    /\ stack' = <<loginFrame>>
    /\ entry' = "library"
    /\ ev' = "call_login"
    /\ BeginTopLevel("login")
    /\ UNCHANGED session

CallCreateChannel ==
    /\ Idle
    /\ \E name \in Names : stack' = <<createFrame(name)>>
    /\ entry' = "library"
    /\ ev' = "call_create_channel"
    /\ BeginTopLevel("create_channel")
    /\ UNCHANGED session

CallUploadVideo ==
    /\ Idle
    /\ \E f \in Files, c \in Names \cup {NoName} : stack' = <<uploadFrame(f, c)>>
    /\ entry' = "library"
    /\ ev' = "call_upload_video"
    /\ BeginTopLevel("upload_video")
    /\ UNCHANGED session

CallBulkUpload ==
    /\ Idle
    /\ \E dir \in Directories, c \in Names \cup {NoName} : stack' = <<bulkFrame(dir, c)>>
    /\ entry' = "library"
    /\ ev' = "call_bulk_upload"
    /\ BeginTopLevel("bulk_upload")
    /\ UNCHANGED session

----------------------------------------------------------------------------

Next ==
    \/ CallMain
    \/ CallLogin
    \/ CallCreateChannel
    \/ CallUploadVideo
    \/ CallBulkUpload
    \/ LoginGetClient
    \/ LoginGetToken
    \/ LoginGetProfile
    \/ CreateStart
    \/ CreateAfterLogin
    \/ CreateRequest
    \/ UploadStart
    \/ UploadAfterLogin
    \/ UploadOpen
    \/ UploadRequest
    \/ BulkSkip
    \/ BulkCallUpload
    \/ BulkAfterUpload
    \/ BulkReturn
    \/ MainCreate
    \/ MainBulk
    \/ MainDone

Spec == Init /\ [][Next]_vars

----------------------------------------------------------------------------
(* Properties *)

Kinds(s) == [i \in 1..Len(s) |-> s[i].kind]
AuthSequence == <<"client", "token", "profile">>
IsPrefix(s, t) == Len(s) <= Len(t) /\ s = SubSeq(t, 1, Len(s))
Last(s) == s[Len(s)]
SessionAtCall ==
    [token |-> atCall.token, channel_id |-> atCall.channel_id,
     channels |-> atCall.channels]
DistinctNames(profile) ==
    \A i, j \in 1..Len(profile) : i # j => profile[i].name # profile[j].name
Succeeded(e) == e.status # 0 /\ ~IsHTTPError(e.status)
Docs(s) == [i \in 1..Len(s) |-> s[i].doc]

\* the current create_channel or upload_video call was made without a token
CalledWithoutToken ==
    atCall.op \in {"create_channel", "upload_video"} /\ atCall.token = NoToken

\* C1: a create_channel or upload_video call made while the token is absent
\* calls login exactly once, and the requests of the call are a prefix of
\* client, token, profile, followed by the create or upload request; no
\* create or upload request is issued with an absent token.
C1_AuthenticateOnDemand ==
    /\ \A i \in 1..Len(reqs) :
          reqs[i].kind \in {"create", "upload"} => reqs[i].token # NoToken
    /\ CalledWithoutToken =>
          /\ logins <= 1
          /\ (Len(reqs) > 0 \/ ev \in {"create_start", "upload_start"}) => logins = 1
          /\ \/ IsPrefix(Kinds(reqs), AuthSequence)
             \/ /\ Len(reqs) = 4
                /\ SubSeq(Kinds(reqs), 1, 3) = AuthSequence
                /\ reqs[4].kind = IF atCall.op = "upload_video" THEN "upload" ELSE "create"

C1_Witness ==
    /\ CalledWithoutToken
    /\ atCall.op = "upload_video"
    /\ ev = "upload_answered"
    /\ Len(reqs) = 4
    /\ logins = 1

\* C2: after login failed because the profile lists no channel, the session
\* holds no token that later calls treat as present.
C2_NoTokenAfterNoChannels ==
    (ev = "login_raise" /\ ret.msg = "No video channels found") => NeedsLogin(token)

\* C3: in a run of the entry point and in a bulk_upload call, no request is
\* issued once a login has failed.
C3_AuthFailureHalts ==
    [][(Len(stack) > 0 /\ stack[1].op \in {"main", "bulk_upload"} /\ authFailed)
          => nreq' = nreq]_vars

\* C4: bulk_upload calls upload_video once for every recognized file, in
\* listing order, raises nothing, and returns the documents of the uploads
\* that succeeded, in that order.
C4_BulkUpload ==
    /\ Running("bulk_upload", "loop") =>
          /\ attempted = SelectSeq(SubSeq(Top.files, 1, Top.idx - 1), Recognized)
          /\ Top.results = Docs(SelectSeq(served, Succeeded))
    /\ ev = "bulk_return" =>
          /\ ret.kind = "return"
          /\ ret.val = Docs(SelectSeq(served, Succeeded))
    /\ ev # "bulk_raise"

C4_Witness ==
    /\ ev = "bulk_return"
    /\ Len(attempted) = 2
    /\ Len(served) = 2
    /\ ~Succeeded(served[1])
    /\ Len(ret.val) = 1

\* C5: the file opened by upload_video is closed when upload_video returns or
\* raises.
C5_HandleClosedAtExit ==
    ev = "upload_answered" => handle = "closed"

\* C6 as stated: a conflict or failure response to the create request leaves
\* the session as it was before create_channel was called.
C6_SessionAsBeforeCall ==
    (ev \in {"create_conflict", "create_failed"}) => Snapshot = SessionAtCall

\* C6 as amended: on a conflict response create_channel returns, on any other
\* failure it raises, and in both cases the session is as it was when the
\* create request was issued (as before the call when the call was made with a
\* token).
C6_SessionAsBeforeRequest ==
    /\ ev = "create_conflict" => ret.kind = "return"
    /\ ev = "create_failed" => ret.kind = "raise"
    /\ (ev \in {"create_conflict", "create_failed"}) =>
          /\ Snapshot = atReq
          /\ atCall.token # NoToken => Snapshot = SessionAtCall

C6_Witness ==
    /\ ev = "create_conflict"
    /\ atCall.token = NoToken
    /\ token # NoToken
    /\ ret.kind = "return"

\* C7: after a login whose profile lists N >= 1 channels of distinct names,
\* the default channel id is the id of the first channel and the cache holds
\* exactly the N entries name -> id of the profile.
C7_LoginChannels ==
    (ev \in {"login_return", "login_raise"} /\ Len(lastProfile) >= 1
        /\ DistinctNames(lastProfile)) =>
          /\ ret.kind = "return"
          /\ channel_id = lastProfile[1].id
          /\ Cardinality(DOMAIN channels) = Len(lastProfile)
          /\ \A i \in 1..Len(lastProfile) :
                /\ lastProfile[i].name \in DOMAIN channels
                /\ channels[lastProfile[i].name] = lastProfile[i].id

C7_Witness ==
    /\ ev = "login_return"
    /\ Len(lastProfile) = 2
    /\ DistinctNames(lastProfile)
    /\ lastProfile[1].id # lastProfile[2].id

\* C8: the channel id of an upload request is the cached id of the given
\* channel name when the cache has the name, and the default channel id
\* otherwise; the fallback raises nothing.
C8_ChannelSent ==
    ev = "upload_answered" =>
        LET e == Last(served)
        IN  /\ Last(reqs).channelId = e.channelId
            /\ IF e.channel_name # NoName /\ e.channel_name \in DOMAIN atReq.channels
                 THEN e.channelId = atReq.channels[e.channel_name]
                 ELSE e.channelId = atReq.channel_id

C8_Witness ==
    /\ ev = "upload_answered"
    /\ Last(served).channel_name \in DOMAIN channels
    /\ Last(served).channelId = channels[Last(served).channel_name]
    /\ Last(served).channelId # channel_id
    /\ ret.kind = "return"

\* C9: status 413 raises the quota error, 415 the format error, 422 the
\* unreadable-file error, three different errors; any other failure status
\* raises an error different from the three; a success status returns the
\* response document.
C9_UploadErrors ==
    ev = "upload_answered" =>
        LET e == Last(served)
            specific == {FormatMsg, QuotaMsg, UnreadableMsg}
        IN  /\ Cardinality(specific) = 3
            /\ e.status = 413 => ret.kind = "raise" /\ ret.msg = QuotaMsg
            /\ e.status = 415 => ret.kind = "raise" /\ ret.msg = FormatMsg
            /\ e.status = 422 => ret.kind = "raise" /\ ret.msg = UnreadableMsg
            /\ (IsHTTPError(e.status) /\ e.status \notin {413, 415, 422}) =>
                  ret.kind = "raise" /\ ret.msg \notin specific
            /\ Succeeded(e) => ret.kind = "return" /\ ret.val = e.doc

C9_Witness ==
    /\ ev = "upload_answered"
    /\ Last(served).status = 413
    /\ ret.msg = QuotaMsg

\* C10: every upload request carries a channel id that is not null.
C10_UploadChannelNotNull ==
    \A i \in 1..Len(reqs) : reqs[i].kind = "upload" => reqs[i].channelId # NoId

====
